---- MODULE Spec2Model ----
(***************************************************************************)
(* A model of frclib-core's structure module (src/src/structure/mod.rs):   *)
(* the global descriptor database FrcStructDescDB backed by the inventory  *)
(* linked list, the batch container FrcStructureBytes, the schema lexer    *)
(* and resolver parse_schema, and the DynamicStructure view.               *)
(*                                                                         *)
(* A schema string is modelled as the sequence of its lexemes (the maximal *)
(* runs the lexer cuts it into, white space skipped); the lexer classifies *)
(* every lexeme by the token rules of the Token enum.                      *)
(***************************************************************************)
EXTENDS Integers, Sequences, FiniteSets, TLC

VARIABLES
    registry,   \* the inventory list of FrcStructDesc nodes, head first
    pc,         \* per thread: where it stands inside add / add_ref
    arg,        \* per thread: the descriptor its pending add / add_ref holds
    ret,        \* the last completed database call: its name, input and result
    batch,      \* the last FrcStructureBytes built by from_parts
    view,       \* the Result of the last try_new, updated in place by update
    call,       \* the last DynamicStructure call: its name and inputs
    resolved,   \* the last parse_schema_toplevel call: its schema and result
    units       \* the last scalar + unit addition: its operands and result

vars == <<registry, pc, arg, ret, batch, view, call, resolved, units>>

----------------------------------------------------------------------------
(* Bounds of the model. *)

\* Most schema parts (field declarations or fragments) joined into one schema.
MaxFields == 2
\* Longest byte buffer handed to from_parts, try_new and update.
MaxBufLen == 13
\* Largest element count handed to from_parts.
MaxCount == 2
\* Width, in bits, the model gives the i64 and u64 of the unit types: their
\* arithmetic is that of two's complement at this width.
WordBits == 4

Threads == {"t1", "t2"}
Bytes == {0, 255}

----------------------------------------------------------------------------
(* Schemas, as lexeme sequences, and the descriptors registered. *)

Point3Schema == <<"float32", "x", ";", "float32", "y", ";", "float32", "z", ";">>
PairSchema == <<"int32", "x", ";", "int32", "y", ";">>
OuterSchema == <<"Point3", "p", ";", "int8", "flag", ";">>
LowerSchema == <<"point3", "p", ";", "int8", "flag", ";">>

FrcStructDesc(type_str, size, schema) ==
    [type_str |-> type_str, size |-> size, schema_supplier |-> schema]

Point3Desc == FrcStructDesc("Point3", 12, Point3Schema)

\* The descriptors the calls draw from: two names come with two descriptors
\* each (another size or schema under the same name), and some declare a size
\* their schema does not add up to (one of them a size smaller than the
\* offset of its last field).
DescPool ==
    { Point3Desc,
      FrcStructDesc("Point3", 8, PairSchema),
      FrcStructDesc("Outer", 13, OuterSchema),
      FrcStructDesc("Outer", 13, LowerSchema),
      FrcStructDesc("Pair", 8, PairSchema),
      FrcStructDesc("Pair", 2, PairSchema) }

TypeStrs == {d.type_str : d \in DescPool} \cup {"point3"}

None == [some |-> FALSE]
Some(v) == [some |-> TRUE, value |-> v]

----------------------------------------------------------------------------
(* FrcStructDescDB over the inventory list. *)

\* inventory's submit: the node becomes the new head of the list.
submit(reg, desc) == <<desc>> \o reg

contains_type(reg, type_str) ==
    \E i \in 1..Len(reg) : reg[i].type_str = type_str

\* find: the first node, from the head, with that type name.
get(reg, type_str) ==
    IF contains_type(reg, type_str)
    THEN LET i == CHOOSE k \in 1..Len(reg) :
                    /\ reg[k].type_str = type_str
                    /\ \A j \in 1..(k - 1) : reg[j].type_str # type_str
         IN Some(reg[i])
    ELSE None

\* add without its contains_type check.
add_unchecked(reg, desc) == submit(reg, desc)

\* One whole call of add, or of add_ref, with no other thread in between.
add(reg, desc) ==
    IF contains_type(reg, desc.type_str) THEN reg ELSE submit(reg, desc)

add_ref(reg, desc) ==
    IF contains_type(reg, desc.type_str) THEN reg ELSE submit(reg, desc)

----------------------------------------------------------------------------
(* StructureFieldTypes. *)

StructureFieldTypes(kind, c) == [kind |-> kind, count |-> c]

base_size(t) ==
    CASE t.kind = "Bool" -> 1
      [] t.kind = "Char" -> 1
      [] t.kind = "Int8" -> 1
      [] t.kind = "Int16" -> 2
      [] t.kind = "Int32" -> 4
      [] t.kind = "Int64" -> 8
      [] t.kind = "UInt8" -> 1
      [] t.kind = "UInt16" -> 2
      [] t.kind = "UInt32" -> 4
      [] t.kind = "UInt64" -> 8
      [] t.kind = "Float32" -> 4
      [] t.kind = "Float64" -> 8

count(t) == t.count

\* size without the element count.
size_ignores_count(t) == base_size(t)

size(t) == base_size(t) * count(t)

from_type(type_name, c) ==
    CASE type_name = "bool" -> Some(StructureFieldTypes("Bool", c))
      [] type_name = "char" -> Some(StructureFieldTypes("Char", c))
      [] type_name = "int8" -> Some(StructureFieldTypes("Int8", c))
      [] type_name = "int16" -> Some(StructureFieldTypes("Int16", c))
      [] type_name = "int32" -> Some(StructureFieldTypes("Int32", c))
      [] type_name = "int64" -> Some(StructureFieldTypes("Int64", c))
      [] type_name = "uint8" -> Some(StructureFieldTypes("UInt8", c))
      [] type_name = "uint16" -> Some(StructureFieldTypes("UInt16", c))
      [] type_name = "uint32" -> Some(StructureFieldTypes("UInt32", c))
      [] type_name = "uint64" -> Some(StructureFieldTypes("UInt64", c))
      [] type_name \in {"float", "float32"} -> Some(StructureFieldTypes("Float32", c))
      [] type_name \in {"double", "float64"} -> Some(StructureFieldTypes("Float64", c))
      [] OTHER -> None

----------------------------------------------------------------------------
(* The lexer: the Token enum's rules, applied to one lexeme. *)

\* Lexemes matching the TypeName rule (priority 3).
TypeNameLexemes ==
    {"bool", "char", "int8", "int16", "int32", "int64", "uint8", "uint16",
     "uint32", "uint64", "float32", "float64", "float", "double"}

\* Lexemes matching the Ident rule and no rule of higher priority.
IdentLexemes ==
    {"x", "y", "z", "p", "o", "a", "b", "c", "flag", "Point3", "point3", "Outer", "Pair"}

\* Digit runs, with the value lex.slice().parse::<u32>() gives them; a digit
\* run that does not fit u32 is a lexing error (ParseNumberError).
IntegerLexemes == {"0", "1", "2", "3", "4294967296"}

ParseU32(lexeme) ==
    CASE lexeme = "0" -> Some(0)
      [] lexeme = "1" -> Some(1)
      [] lexeme = "2" -> Some(2)
      [] lexeme = "3" -> Some(3)
      [] OTHER -> None

Punctuation ==
    [l \in {"{", "}", "[", "]", ",", ";", ":"} |->
        CASE l = "{" -> "OpenBrace"
          [] l = "}" -> "CloseBrace"
          [] l = "[" -> "OpenBracket"
          [] l = "]" -> "CloseBracket"
          [] l = "," -> "Comma"
          [] l = ";" -> "Semicolon"
          [] l = ":" -> "Colon"]

\* Any other lexeme (such as "?") matches no rule: a lexing error.
Token(lexeme) ==
    CASE lexeme \in TypeNameLexemes -> [kind |-> "TypeName", text |-> lexeme]
      [] lexeme = "enum" -> [kind |-> "EnumKeyword"]
      [] lexeme \in IntegerLexemes ->
            IF ParseU32(lexeme).some
            THEN [kind |-> "Integer", int |-> ParseU32(lexeme).value]
            ELSE [kind |-> "Error"]
      [] lexeme \in IdentLexemes -> [kind |-> "Ident", text |-> lexeme]
      [] lexeme \in DOMAIN Punctuation -> [kind |-> Punctuation[lexeme]]
      [] OTHER -> [kind |-> "Error"]

lexer(schema) == [i \in 1..Len(schema) |-> Token(schema[i])]

----------------------------------------------------------------------------
(* parse_schema. *)

\* The filter of parse_schema: the tokens that take part in a field.
Significant(token) == token.kind \in {"Ident", "Integer", "TypeName", "Semicolon"}

\* slice::split at every Semicolon: n semicolons give n + 1 groups, empty
\* ones included.
RECURSIVE split(_)
split(tokens) ==
    IF \E i \in 1..Len(tokens) : tokens[i].kind = "Semicolon"
    THEN LET i == CHOOSE k \in 1..Len(tokens) :
                    /\ tokens[k].kind = "Semicolon"
                    /\ \A j \in 1..(k - 1) : tokens[j].kind # "Semicolon"
         IN <<SubSeq(tokens, 1, i - 1)>> \o split(SubSeq(tokens, i + 1, Len(tokens)))
    ELSE <<tokens>>

FieldEntry(path, offset, stype) == [path |-> path, offset |-> offset, type |-> stype]

RECURSIVE resolve(_, _, _, _)
RECURSIVE filter_map(_, _, _, _)

\* The closure with the cursor left where it was after a sub-structure field.
field_no_advance(reg, field_tokens, prefix, cursor) ==
    IF Len(field_tokens) < 2 \/ Len(field_tokens) > 3
    THEN [ret |-> None, cursor |-> cursor]
    ELSE IF field_tokens[2].kind # "Ident"
    THEN [ret |-> None, cursor |-> cursor]
    ELSE LET ident == field_tokens[2].text
             first == field_tokens[1]
         IN CASE first.kind = "Ident" ->
                    LET found == get(reg, first.text)
                    IN IF found.some
                       THEN [ret |-> Some(resolve(reg, found.value.schema_supplier,
                                                  ident \o ".", cursor).vec),
                             cursor |-> cursor]
                       ELSE [ret |-> None, cursor |-> cursor]
              [] first.kind = "TypeName" ->
                    LET c == IF Len(field_tokens) >= 3 /\ field_tokens[3].kind = "Integer"
                             THEN field_tokens[3].int
                             ELSE 1
                        stype == from_type(first.text, c)
                    IN IF stype.some
                       THEN [ret |-> Some(<<FieldEntry(prefix \o ident, cursor, stype.value)>>),
                             cursor |-> cursor + size(stype.value)]
                       ELSE [ret |-> None, cursor |-> cursor]
              [] OTHER -> [ret |-> None, cursor |-> cursor]

\* The closure of filter_map on one group of tokens, at the cursor: what it
\* returns (None: the group yields nothing) and the cursor it leaves.
field(reg, field_tokens, prefix, cursor) ==
    IF Len(field_tokens) < 2 \/ Len(field_tokens) > 3
    THEN [ret |-> None, cursor |-> cursor]
    ELSE IF field_tokens[2].kind # "Ident"
    THEN [ret |-> None, cursor |-> cursor]
    ELSE LET ident == field_tokens[2].text
             first == field_tokens[1]
         IN CASE first.kind = "Ident" ->
                    LET found == get(reg, first.text)
                    IN IF found.some
                       THEN [ret |-> Some(resolve(reg, found.value.schema_supplier,
                                                  ident \o ".", cursor).vec),
                             cursor |-> cursor + found.value.size]
                       ELSE [ret |-> None, cursor |-> cursor]
              [] first.kind = "TypeName" ->
                    LET c == IF Len(field_tokens) >= 3 /\ field_tokens[3].kind = "Integer"
                             THEN field_tokens[3].int
                             ELSE 1
                        stype == from_type(first.text, c)
                    IN IF stype.some
                       THEN [ret |-> Some(<<FieldEntry(prefix \o ident, cursor, stype.value)>>),
                             cursor |-> cursor + size(stype.value)]
                       ELSE [ret |-> None, cursor |-> cursor]
              [] OTHER -> [ret |-> None, cursor |-> cursor]

\* filter_map(..).flatten().collect() over the groups, in order, threading
\* the cursor the closure mutates.
filter_map(reg, groups, prefix, cursor) ==
    IF groups = <<>>
    THEN [vec |-> <<>>, cursor |-> cursor]
    ELSE LET f == field(reg, Head(groups), prefix, cursor)
             rest == filter_map(reg, Tail(groups), prefix, f.cursor)
         IN [vec |-> (IF f.ret.some THEN f.ret.value ELSE <<>>) \o rest.vec,
             cursor |-> rest.cursor]

\* The body of parse_schema: the Vec it returns and the value its local
\* cursor ends with.
resolve(reg, schema, prefix, offset) ==
    LET tokens_collect == lexer(schema)
    IN IF \E i \in 1..Len(tokens_collect) : tokens_collect[i].kind = "Error"
       THEN [vec |-> <<>>, cursor |-> offset]
       ELSE filter_map(reg, split(SelectSeq(tokens_collect, Significant)), prefix, offset)

parse_schema(reg, schema, prefix, offset) == resolve(reg, schema, prefix, offset).vec

parse_schema_toplevel(reg, schema) == parse_schema(reg, schema, "", 0)

\* What parse_schema's cursor holds after the last top-level field.
final_cursor(reg, schema) == resolve(reg, schema, "", 0).cursor

----------------------------------------------------------------------------
(* FrcStructureBytes and DynamicStructure. *)

from_parts(desc, n, data) == [desc |-> desc, count |-> n, data |-> data]

\* HashMap::insert of every resolved field, in order: a later field of the
\* same path replaces the earlier one.
field_map(fields) ==
    [p \in {fields[i].path : i \in 1..Len(fields)} |->
        LET i == CHOOSE k \in 1..Len(fields) :
                    /\ fields[k].path = p
                    /\ \A j \in (k + 1)..Len(fields) : fields[j].path # p
        IN <<fields[i].offset, fields[i].type>>]

\* try_new without its length check.
try_new_unchecked(reg, desc, buffer) ==
    [tag |-> "Ok", desc |-> desc, buffer |-> buffer,
     map |-> field_map(parse_schema_toplevel(reg, desc.schema_supplier))]

try_new(reg, desc, buffer) ==
    IF Len(buffer) # desc.size
    THEN [tag |-> "Err"]
    ELSE [tag |-> "Ok", desc |-> desc, buffer |-> buffer,
          map |-> field_map(parse_schema_toplevel(reg, desc.schema_supplier))]

\* update replacing the buffer by the new one whatever its length.
update_unchecked(self, new, build) ==
    [panicked |-> FALSE, self |-> [self EXCEPT !.buffer = new]]

\* update on a debug build (debug_assert! panics on a length mismatch) and on
\* a release build (copy_from_slice panics on a length mismatch, before it
\* copies anything).
update(self, new, build) ==
    IF build = "debug" /\ Len(new) # Len(self.buffer)
    THEN [panicked |-> TRUE, self |-> self]
    ELSE IF Len(new) # Len(self.buffer)
    THEN [panicked |-> TRUE, self |-> self]
    ELSE [panicked |-> FALSE, self |-> [self EXCEPT !.buffer = new]]

----------------------------------------------------------------------------
(* Units: the types of the unit! macro over an integer representation. *)

\* The unit types of the test module, with their representation.
UnitTypes == [Millisecond |-> "int", Microsecond |-> "uint"]

\* The values of a representation.
Values(repr) ==
    IF repr = "int"
    THEN (-(2 ^ (WordBits - 1)))..(2 ^ (WordBits - 1) - 1)
    ELSE 0..(2 ^ WordBits - 1)

\* $unit_name::new and $unit_name::value.
unit_new(unit, v) == [unit |-> unit, value |-> v]

value(u) == u.value

\* The bit pattern of a value, and the value a bit pattern stands for.
to_bits(v) == v % (2 ^ WordBits)

from_bits(repr, bits) ==
    IF repr = "int" /\ bits >= 2 ^ (WordBits - 1) THEN bits - 2 ^ WordBits ELSE bits

\* The + of the underlying integer type: the bit patterns are added; on
\* overflow a debug build panics and a release build keeps the low bits.
primitive_add(repr, a, b, build) ==
    LET carry == to_bits(a) + to_bits(b)
        r == from_bits(repr, carry % (2 ^ WordBits))
        overflow == IF repr = "int"
                    THEN (a >= 0) = (b >= 0) /\ (r >= 0) # (a >= 0)
                    ELSE carry >= 2 ^ WordBits
    IN IF build = "debug" /\ overflow
       THEN [panicked |-> TRUE]
       ELSE [panicked |-> FALSE, value |-> r]

\* Add<Unit> for the scalar with the scalar left out of the sum.
scalar_add_drops_scalar(s, u, build) == [panicked |-> FALSE, unit |-> u]

\* impl Add<$unit_name> for the underlying scalar type: s + U(v).
scalar_add(s, u, build) ==
    LET r == primitive_add(UnitTypes[u.unit], s, value(u), build)
    IN IF r.panicked
       THEN [panicked |-> TRUE]
       ELSE [panicked |-> FALSE, unit |-> unit_new(u.unit, r.value)]

----------------------------------------------------------------------------
(* Inputs. *)

\* A buffer of n bytes, all b.
Fill(n, b) == [i \in 1..n |-> b]

Buffers == {Fill(n, b) : n \in 0..MaxBufLen, b \in Bytes}

\* Field declarations, well formed and not, and fragments of them.
SchemaParts ==
    { <<"Point3", "p", ";">>,
      <<"point3", "p", ";">>,
      <<"Outer", "o", ";">>,
      <<"Pair", "a", ";">>,
      <<"int8", "flag", ";">>,
      <<"int32", "a", "[", "2", "]", ";">>,
      <<"int8", ";">>,
      <<"int8", "a", "b", "c", ";">>,
      <<"int8", "2", ";">>,
      <<"int16", "b", "?", ";">>,
      <<"int16", "c">> }

RECURSIVE SchemasOf(_)
SchemasOf(n) ==
    IF n = 0
    THEN {<<>>}
    ELSE LET shorter == SchemasOf(n - 1)
         IN shorter \cup {s \o part : s \in shorter, part \in SchemaParts}

Schemas == SchemasOf(MaxFields) \cup {d.schema_supplier : d \in DescPool}

\* The array counts written in a schema.
Counts == {"0", "1", "2", "3"}

\* A primitive field of every type keyword, without and with an array count.
PrimitiveFields ==
    {<<type_name, "x", ";">> : type_name \in TypeNameLexemes}
    \cup {<<type_name, "x", "[", n, "]", ";">> : type_name \in TypeNameLexemes, n \in Counts}

\* Schemas with a primitive field after some other declarations and before at
\* most one more field.
PrimitiveSchemas ==
    {before \o f \o after :
        before \in SchemasOf(MaxFields - 1),
        f \in PrimitiveFields,
        after \in {<<>>, <<"int8", "flag", ";">>, <<"int32", "y", ";">>}}

----------------------------------------------------------------------------
(* The state machine. *)

Init ==
    /\ registry = <<>>
    /\ pc = [t \in Threads |-> "idle"]
    /\ arg = [t \in Threads |-> None]
    /\ ret = [op |-> "none"]
    /\ batch = None
    /\ view = [tag |-> "None"]
    /\ call = [op |-> "none"]
    /\ resolved = None
    /\ units = [op |-> "none"]

Rest == <<batch, view, call, resolved, units>>

(* add and add_ref run by concurrent threads: the check of contains_type and
   the submit are two steps, and other threads may run in between. *)

AddCheckPresent(t, desc) ==
    /\ pc[t] = "idle"
    /\ contains_type(registry, desc.type_str)
    /\ ret' = [op |-> "add", arg |-> desc]
    /\ UNCHANGED <<registry, pc, arg, Rest>>

AddCheckAbsent(t, desc) ==
    /\ pc[t] = "idle"
    /\ ~contains_type(registry, desc.type_str)
    /\ pc' = [pc EXCEPT ![t] = "add_submit"]
    /\ arg' = [arg EXCEPT ![t] = Some(desc)]
    /\ UNCHANGED <<registry, ret, Rest>>

AddSubmit(t) ==
    /\ pc[t] = "add_submit"
    /\ registry' = submit(registry, arg[t].value)
    /\ pc' = [pc EXCEPT ![t] = "idle"]
    /\ arg' = [arg EXCEPT ![t] = None]
    /\ ret' = [op |-> "add", arg |-> arg[t].value]
    /\ UNCHANGED Rest

AddRefCheckPresent(t, desc) ==
    /\ pc[t] = "idle"
    /\ contains_type(registry, desc.type_str)
    /\ ret' = [op |-> "add_ref", arg |-> desc]
    /\ UNCHANGED <<registry, pc, arg, Rest>>

AddRefCheckAbsent(t, desc) ==
    /\ pc[t] = "idle"
    /\ ~contains_type(registry, desc.type_str)
    /\ pc' = [pc EXCEPT ![t] = "add_ref_submit"]
    /\ arg' = [arg EXCEPT ![t] = Some(desc)]
    /\ UNCHANGED <<registry, ret, Rest>>

AddRefSubmit(t) ==
    /\ pc[t] = "add_ref_submit"
    /\ registry' = submit(registry, arg[t].value)
    /\ pc' = [pc EXCEPT ![t] = "idle"]
    /\ arg' = [arg EXCEPT ![t] = None]
    /\ ret' = [op |-> "add_ref", arg |-> arg[t].value]
    /\ UNCHANGED Rest

ContainsType(t, type_str) ==
    /\ pc[t] = "idle"
    /\ ret' = [op |-> "contains_type", arg |-> type_str,
               result |-> contains_type(registry, type_str)]
    /\ UNCHANGED <<registry, pc, arg, Rest>>

Get(t, type_str) ==
    /\ pc[t] = "idle"
    /\ ret' = [op |-> "get", arg |-> type_str, result |-> get(registry, type_str)]
    /\ UNCHANGED <<registry, pc, arg, Rest>>

Next ==
    \E t \in Threads :
        \/ \E desc \in DescPool :
            \/ AddCheckPresent(t, desc)
            \/ AddCheckAbsent(t, desc)
            \/ AddRefCheckPresent(t, desc)
            \/ AddRefCheckAbsent(t, desc)
        \/ AddSubmit(t)
        \/ AddRefSubmit(t)
        \/ \E type_str \in TypeStrs :
            \/ ContainsType(t, type_str)
            \/ Get(t, type_str)

Spec == Init /\ [][Next]_vars

(* A sequential run: every call of add or add_ref runs from its check to its
   return before the next call starts. *)

SeqAdd(desc) ==
    /\ registry' = add(registry, desc)
    /\ ret' = [op |-> "add", arg |-> desc]
    /\ UNCHANGED <<pc, arg, Rest>>

SeqAddRef(desc) ==
    /\ registry' = add_ref(registry, desc)
    /\ ret' = [op |-> "add_ref", arg |-> desc]
    /\ UNCHANGED <<pc, arg, Rest>>

SeqContainsType(type_str) ==
    /\ ret' = [op |-> "contains_type", arg |-> type_str,
               result |-> contains_type(registry, type_str)]
    /\ UNCHANGED <<registry, pc, arg, Rest>>

SeqGet(type_str) ==
    /\ ret' = [op |-> "get", arg |-> type_str, result |-> get(registry, type_str)]
    /\ UNCHANGED <<registry, pc, arg, Rest>>

SeqNext ==
    \/ \E desc \in DescPool : SeqAdd(desc) \/ SeqAddRef(desc)
    \/ \E type_str \in TypeStrs : SeqContainsType(type_str) \/ SeqGet(type_str)

SeqSpec == Init /\ [][SeqNext]_vars

(* FrcStructureBytes::from_parts. *)

FromParts(desc, n, data) ==
    /\ batch' = Some(from_parts(desc, n, data))
    /\ UNCHANGED <<registry, pc, arg, ret, view, call, resolved, units>>

BatchNext ==
    \E desc \in DescPool, n \in 0..MaxCount, data \in Buffers : FromParts(desc, n, data)

BatchSpec == Init /\ [][BatchNext]_vars

(* Registration followed by schema resolution. *)

Register(desc) ==
    /\ registry' = add(registry, desc)
    /\ UNCHANGED <<pc, arg, ret, Rest>>

\* One call of parse_schema_toplevel; the caller holds the Vec it returned.
Resolve(schema) ==
    /\ resolved = None
    /\ resolved' = Some([schema |-> schema,
                         result |-> [tag |-> "Vec",
                                     vec |-> parse_schema_toplevel(registry, schema)]])
    /\ UNCHANGED <<registry, pc, arg, ret, batch, view, call, units>>

\* The caller drops the Vec.
DropResolved ==
    /\ resolved # None
    /\ resolved' = None
    /\ UNCHANGED <<registry, pc, arg, ret, batch, view, call, units>>

ResolveNext ==
    \/ \E desc \in DescPool : Register(desc)
    \/ \E schema \in Schemas : Resolve(schema)
    \/ DropResolved

ResolveSpec == Init /\ [][ResolveNext]_vars

(* Resolution of schemas with a primitive field of every type and count. *)

PrimitiveNext ==
    \/ \E schema \in PrimitiveSchemas : Resolve(schema)
    \/ DropResolved

PrimitiveSpec == Init /\ [][PrimitiveNext]_vars

(* DynamicStructure: try_new and update. *)

\* One call of try_new; the caller holds the Result it returned.
TryNew(desc, buffer) ==
    /\ view.tag = "None"
    /\ view' = try_new(registry, desc, buffer)
    /\ call' = [op |-> "try_new", desc |-> desc, buffer |-> buffer]
    /\ UNCHANGED <<registry, pc, arg, ret, batch, resolved, units>>

Update(new, build) ==
    /\ view.tag = "Ok"
    /\ LET r == update(view, new, build)
       IN /\ view' = r.self
          /\ call' = [op |-> "update", new |-> new, build |-> build,
                      panicked |-> r.panicked]
    /\ UNCHANGED <<registry, pc, arg, ret, batch, resolved, units>>

\* The caller drops the Result, and with it the DynamicStructure.
DropView ==
    /\ view.tag # "None"
    /\ view' = [tag |-> "None"]
    /\ call' = [op |-> "none"]
    /\ UNCHANGED <<registry, pc, arg, ret, batch, resolved, units>>

ViewNext ==
    \/ \E desc \in DescPool : Register(desc)
    \/ \E desc \in DescPool, buffer \in Buffers : TryNew(desc, buffer)
    \/ DropView
    \/ \E new \in Buffers, build \in {"debug", "release"} : Update(new, build)

ViewSpec == Init /\ [][ViewNext]_vars

(* Units: a scalar added on the left of a unit value, as in the test ops. *)

\* One addition; the caller holds its result.
ScalarAdd(unit, s, v, build) ==
    /\ units.op = "none"
    /\ units' = [op |-> "scalar_add", scalar |-> s, unit |-> unit_new(unit, v),
                 build |-> build, result |-> scalar_add(s, unit_new(unit, v), build)]
    /\ UNCHANGED <<registry, pc, arg, ret, batch, view, call, resolved>>

\* The caller drops the result.
DropUnits ==
    /\ units.op # "none"
    /\ units' = [op |-> "none"]
    /\ UNCHANGED <<registry, pc, arg, ret, batch, view, call, resolved>>

UnitNext ==
    \/ \E unit \in DOMAIN UnitTypes, build \in {"debug", "release"} :
        \E s \in Values(UnitTypes[unit]), v \in Values(UnitTypes[unit]) :
            ScalarAdd(unit, s, v, build)
    \/ DropUnits

UnitSpec == Init /\ [][UnitNext]_vars

----------------------------------------------------------------------------
(* Properties. *)

NoDuplicates(reg) ==
    \A i, j \in 1..Len(reg) : i # j => reg[i].type_str # reg[j].type_str

\* C1: under any interleaving of concurrent add / add_ref calls the registry
\* never holds two entries with the same type name.
C1_NoDuplicateTypeNames == NoDuplicates(registry)

\* C2: in a sequential run a call of add / add_ref with descriptor d adds d if
\* and only if no entry has d's type name (lookup of the name then returns d
\* and every other lookup is as before); when the name is present the registry
\* is left as it was, so lookup still returns the first registration, and no
\* two entries ever share a type name.
C2_RegisterIffAbsent ==
    [][(ret' # ret \/ registry' # registry) /\ ret'.op \in {"add", "add_ref"} =>
        LET d == ret'.arg
        IN /\ IF contains_type(registry, d.type_str)
              THEN registry' = registry
              ELSE /\ Len(registry') = Len(registry) + 1
                   /\ get(registry', d.type_str) = Some(d)
                   /\ \A n \in TypeStrs \ {d.type_str} :
                        get(registry', n) = get(registry, n)
           /\ NoDuplicates(registry')]_vars

\* C2 witness: a second registration under a registered name, with another
\* size, has returned and lookup still gives the first descriptor.
C2_Witness ==
    /\ ret.op = "add"
    /\ get(registry, ret.arg.type_str).some
    /\ get(registry, ret.arg.type_str).value.size # ret.arg.size

\* C3: once lookup(name) gives a descriptor, every later lookup(name) gives
\* that same descriptor, under any interleaving of further calls.
C3_LookupStable ==
    [][\A n \in TypeStrs :
        get(registry, n).some => get(registry', n) = get(registry, n)]_vars

\* C4: a batch built by from_parts always has data.len() == desc.size * count.
C4_FromPartsValidates ==
    batch.some => Len(batch.value.data) = batch.value.desc.size * batch.value.count

\* A step that is one call of parse_schema_toplevel.
ResolveStep == resolved = None /\ resolved' # None

Groups(schema) == split(SelectSeq(lexer(schema), Significant))

LexError(schema) == \E i \in 1..Len(schema) : Token(schema[i]).kind = "Error"

\* The schema lexes, and has a well-shaped field whose leading identifier
\* names no registered type.
UnresolvedReference(reg, schema) ==
    /\ ~LexError(schema)
    /\ \E k \in 1..Len(Groups(schema)) :
        LET g == Groups(schema)[k]
        IN /\ Len(g) \in {2, 3}
           /\ g[2].kind = "Ident"
           /\ g[1].kind = "Ident"
           /\ ~contains_type(reg, g[1].text)

\* C5: resolving a schema with a field whose leading identifier names no
\* registered type reports an error.
C5_UnresolvedIsError ==
    [][ResolveStep /\ UnresolvedReference(registry, resolved'.value.schema) =>
        resolved'.value.result.tag = "Err"]_vars

\* The schema has a lexing error, or a (non-empty) field with fewer than 2 or
\* more than 3 significant tokens, or one whose second token is no identifier.
Malformed(schema) ==
    \/ LexError(schema)
    \/ \E k \in 1..Len(Groups(schema)) :
        LET g == Groups(schema)[k]
        IN /\ Len(g) >= 1
           /\ \/ Len(g) < 2
              \/ Len(g) > 3
              \/ g[2].kind # "Ident"

\* C6: resolving a malformed schema yields a parse error, neither an empty
\* nor a partial field list.
C6_MalformedIsError ==
    [][ResolveStep /\ Malformed(resolved'.value.schema) =>
        resolved'.value.result.tag = "Err"]_vars

\* C7: a descriptor that add / add_ref makes visible through lookup has a
\* schema that resolves, at that time, to a final cursor equal to its size.
C7_RejectsSizeMismatch ==
    [][\A n \in TypeStrs :
        get(registry', n) # get(registry, n) =>
            LET d == get(registry', n).value
            IN final_cursor(registry, d.schema_supplier) = d.size]_vars

\* C8: try_new fails, and builds no object, exactly when buffer.len() differs
\* from desc.size; every view that exists has buffer.len() == desc.size.
C8_TryNewChecksSize ==
    /\ call.op = "try_new" =>
        IF Len(call.buffer) # call.desc.size
        THEN view.tag = "Err"
        ELSE view.tag = "Ok" /\ view.desc = call.desc /\ view.buffer = call.buffer
    /\ view.tag = "Ok" => Len(view.buffer) = view.desc.size

\* C8 witness: try_new of an 8-byte descriptor on a 7-byte buffer has failed.
C8_Witness ==
    /\ call.op = "try_new"
    /\ call.desc.size = 8
    /\ Len(call.buffer) = 7
    /\ view.tag = "Err"

\* C9: update with a buffer of another length fails and leaves the view as it
\* was; with the same length the view's buffer becomes the new buffer; either
\* way the buffer keeps the length desc.size.
C9_UpdateKeepsLength ==
    [][call' # call /\ call'.op = "update" =>
        /\ IF Len(call'.new) # Len(view.buffer)
           THEN call'.panicked /\ view' = view
           ELSE /\ ~call'.panicked
                /\ view'.buffer = call'.new
                /\ view'.desc = view.desc
        /\ Len(view'.buffer) = view'.desc.size]_vars

\* C9 witness: an update with a buffer of another length has failed.
C9_Witness ==
    /\ call.op = "update"
    /\ view.tag = "Ok"
    /\ Len(call.new) # Len(view.buffer)
    /\ call.panicked

Float32 == StructureFieldTypes("Float32", 1)

Point3Entries ==
    << FieldEntry("p.x", 0, Float32),
       FieldEntry("p.y", 4, Float32),
       FieldEntry("p.z", 8, Float32),
       FieldEntry("flag", 12, StructureFieldTypes("Int8", 1)) >>

\* C10 as stated: with Point3 registered, "point3 p;int8 flag;" resolves to
\* the four entries p.x, p.y, p.z, flag.
C10_LowerCaseResolves ==
    [][ResolveStep /\ get(registry, "Point3") = Some(Point3Desc)
                   /\ resolved'.value.schema = LowerSchema =>
        resolved'.value.result.vec = Point3Entries]_vars

\* C10 amended: with Point3 registered, "Point3 p;int8 flag;" (the reference
\* spelled as the type is named) resolves to the four entries p.x, p.y, p.z,
\* flag, in that order.
C10_ExactNameResolves ==
    [][ResolveStep /\ get(registry, "Point3") = Some(Point3Desc)
                   /\ resolved'.value.schema = OuterSchema =>
        resolved'.value.result.vec = Point3Entries]_vars

\* C10 witness: "Point3 p;int8 flag;" was resolved with Point3 registered.
C10_Witness ==
    /\ resolved.some
    /\ resolved.value.schema = OuterSchema
    /\ get(registry, "Point3") = Some(Point3Desc)
    /\ Len(resolved.value.result.vec) = 4

\* The value of the representation that the integer n wraps to.
Wrapped(repr, n) == CHOOSE w \in Values(repr) : (w - n) % (2 ^ WordBits) = 0

\* C11: for a unit type over i64 or u64, s + U(v) is the same unit wrapping
\* the sum s + v of the underlying type: the exact sum when it fits, and on
\* overflow what the type's own + does (a panic in a debug build, the wrapped
\* sum in a release build).
C11_ScalarPlusUnit ==
    units.op = "scalar_add" =>
        LET repr == UnitTypes[units.unit.unit]
            sum == units.scalar + units.unit.value
        IN IF sum \in Values(repr)
           THEN units.result = [panicked |-> FALSE, unit |-> unit_new(units.unit.unit, sum)]
           ELSE IF units.build = "debug"
           THEN units.result.panicked
           ELSE units.result = [panicked |-> FALSE,
                                unit |-> unit_new(units.unit.unit, Wrapped(repr, sum))]

\* C11 witness: 1 + Millisecond(-1) gave Millisecond(0).
C11_Witness ==
    /\ units.op = "scalar_add"
    /\ units.scalar = 1
    /\ units.unit = unit_new("Millisecond", -1)
    /\ units.result = [panicked |-> FALSE, unit |-> unit_new("Millisecond", 0)]

\* The entries, each with its path prefixed by `id.` and its offset raised by c.
Prefixed(entries, id, c) ==
    [i \in 1..Len(entries) |->
        FieldEntry(id \o "." \o entries[i].path, entries[i].offset + c, entries[i].type)]

\* The schema has, at lexeme k, a field `T id;` that starts a declaration and
\* whose T names a registered type.
SubStructureFieldAt(reg, schema, k) ==
    /\ k + 2 <= Len(schema)
    /\ k = 1 \/ schema[k - 1] = ";"
    /\ Token(schema[k]).kind = "Ident"
    /\ contains_type(reg, schema[k])
    /\ Token(schema[k + 1]).kind = "Ident"
    /\ schema[k + 2] = ";"

\* C12: a sub-structure field `T id` at cursor c yields the entries of T's own
\* schema resolved at top level, each with its path prefixed by `id.` and its
\* offset raised by c (so a field two levels down has the path
\* `outer.inner.field`), and the fields after it resolve from cursor
\* c + T's declared size.
C12_SubStructureInlined ==
    [][ResolveStep /\ ~LexError(resolved'.value.schema) =>
        LET schema == resolved'.value.schema
        IN \A k \in 1..Len(schema) :
            SubStructureFieldAt(registry, schema, k) =>
                LET before == SubSeq(schema, 1, k - 1)
                    after == SubSeq(schema, k + 3, Len(schema))
                    desc == get(registry, schema[k]).value
                    c == final_cursor(registry, before)
                IN resolved'.value.result.vec =
                        parse_schema_toplevel(registry, before)
                        \o Prefixed(parse_schema_toplevel(registry, desc.schema_supplier),
                                    schema[k + 1], c)
                        \o parse_schema(registry, after, "", c + desc.size)]_vars

\* The base sizes and the field types of the type keywords, as tabulated.
BaseSizeTable ==
    [t \in TypeNameLexemes |->
        CASE t \in {"bool", "char", "int8", "uint8"} -> 1
          [] t \in {"int16", "uint16"} -> 2
          [] t \in {"int32", "uint32", "float32", "float"} -> 4
          [] t \in {"int64", "uint64", "float64", "double"} -> 8]

KindTable ==
    [t \in TypeNameLexemes |->
        CASE t = "bool" -> "Bool"
          [] t = "char" -> "Char"
          [] t = "int8" -> "Int8"
          [] t = "int16" -> "Int16"
          [] t = "int32" -> "Int32"
          [] t = "int64" -> "Int64"
          [] t = "uint8" -> "UInt8"
          [] t = "uint16" -> "UInt16"
          [] t = "uint32" -> "UInt32"
          [] t = "uint64" -> "UInt64"
          [] t \in {"float32", "float"} -> "Float32"
          [] t \in {"float64", "double"} -> "Float64"]

CountTable == [n \in Counts |-> CASE n = "0" -> 0 [] n = "1" -> 1 [] n = "2" -> 2 [] n = "3" -> 3]

\* The schema has, at lexeme k, a primitive field that starts a declaration,
\* of len lexemes: `type id;` (3) or `type id[n];` (6).
PrimitiveFieldAt(schema, k, len) ==
    /\ k + len - 1 <= Len(schema)
    /\ k = 1 \/ schema[k - 1] = ";"
    /\ schema[k] \in TypeNameLexemes
    /\ Token(schema[k + 1]).kind = "Ident"
    /\ \/ len = 3 /\ schema[k + 2] = ";"
       \/ /\ len = 6
          /\ schema[k + 2] = "["
          /\ schema[k + 3] \in Counts
          /\ schema[k + 4] = "]"
          /\ schema[k + 5] = ";"

PairEntries ==
    << FieldEntry("x", 0, StructureFieldTypes("Int32", 1)),
       FieldEntry("y", 4, StructureFieldTypes("Int32", 1)) >>

\* C13: a primitive field of any type keyword and count n (1 when omitted)
\* yields exactly one entry, at the current cursor, and the fields after it
\* resolve from that cursor plus base size times n, the base sizes being those
\* of the table; "int32 x;int32 y;" resolves to x at 0 and y at 4, with final
\* cursor 8.
C13_PrimitiveField ==
    [][ResolveStep /\ ~LexError(resolved'.value.schema) =>
        LET schema == resolved'.value.schema
        IN /\ \A k \in 1..Len(schema), len \in {3, 6} :
                PrimitiveFieldAt(schema, k, len) =>
                    LET before == SubSeq(schema, 1, k - 1)
                        after == SubSeq(schema, k + len, Len(schema))
                        n == IF len = 6 THEN CountTable[schema[k + 3]] ELSE 1
                        c == final_cursor(registry, before)
                    IN resolved'.value.result.vec =
                            parse_schema_toplevel(registry, before)
                            \o <<FieldEntry(schema[k + 1], c,
                                            StructureFieldTypes(KindTable[schema[k]], n))>>
                            \o parse_schema(registry, after, "", c + BaseSizeTable[schema[k]] * n)
           /\ schema = PairSchema =>
                /\ resolved'.value.result.vec = PairEntries
                /\ final_cursor(registry, schema) = 8]_vars

\* C13 witness: "int32 x;int32 y;" was resolved to x at 0 and y at 4.
C13_Witness ==
    /\ resolved.some
    /\ resolved.value.schema = PairSchema
    /\ resolved.value.result.vec = PairEntries

\* The schema resolves with none of the errors: every declaration ends with
\* `;`, none is malformed and every sub-structure named is registered.
Successful(reg, schema) ==
    /\ schema = <<>> \/ schema[Len(schema)] = ";"
    /\ ~Malformed(schema)
    /\ ~UnresolvedReference(reg, schema)

IsPrefix(a, b) == Len(a) <= Len(b) /\ SubSeq(b, 1, Len(a)) = a

\* The entries of the declarations up to each `;` come first, in the same
\* order: entries are in declaration order and those of one field are one
\* contiguous run at the place of that field.
InDeclarationOrder(reg, schema, vec) ==
    \A k \in 1..Len(schema) :
        schema[k] = ";" => IsPrefix(parse_schema_toplevel(reg, SubSeq(schema, 1, k)), vec)

NonDecreasingOffsets(vec) ==
    \A i \in 1..(Len(vec) - 1) : vec[i].offset <= vec[i + 1].offset

\* C14: for a schema that resolves successfully the entries are in
\* declaration order, the entries of a sub-structure field form one contiguous
\* run at the place of that field, and offsets never decrease along the list.
C14_OrderedEntries ==
    [][ResolveStep /\ Successful(registry, resolved'.value.schema) =>
        /\ InDeclarationOrder(registry, resolved'.value.schema, resolved'.value.result.vec)
        /\ NonDecreasingOffsets(resolved'.value.result.vec)]_vars

====
